---------------------------- MODULE Spec2Model ----------------------------
(***************************************************************************)
(* Model of data_loader.py: load_data (format dispatch on the file         *)
(* extension, with error logging) and main (start tracking run, load,      *)
(* build artifact, write CSV, log artifact).                               *)
(*                                                                         *)
(* One run of main is one behaviour.  The command line arguments and the   *)
(* file found at --file_path are chosen in Init; pandas and wandb are the  *)
(* environment: a reader's outcome is decided by the file's content, and   *)
(* every wandb call may fail.                                              *)
(***************************************************************************)
EXTENDS Integers, Sequences, FiniteSets, TLC

VARIABLES
    pc,             \* position in main / load_data
    args,           \* argparse.Namespace handed to main
    file,           \* what is on disk at args.file_path
    file_extension, \* local of load_data (line 35)
    pending,        \* exception in flight inside the try block of load_data
    ret,            \* local df of load_data (lines 40, 43, 46)
    ldResult,       \* how the call of load_data ended: "none", "returned", "raised"
    df,             \* local df of main (line 74)
    exc,            \* exception that left load_data / main
    log,            \* records emitted through logger
    trace,          \* calls made by main, in order
    readerCalls,    \* calls of pandas readers, in order
    artifact,       \* the wandb.Artifact of main (line 76)
    openFile,       \* file handle f of the with-block (line 81)
    logged          \* artifacts received by wandb.log_artifact

vars == <<pc, args, file, file_extension, pending, ret, ldResult, df, exc,
          log, trace, readerCalls, artifact, openFile, logged>>

---------------------------------------------------------------------------
(* Bounds of the model *)

MaxSheets == 2      \* sheet names range over Sheet1..SheetMaxSheets
MaxNames == 2       \* artifact names range over 1..MaxNames

---------------------------------------------------------------------------
(* Optional values: Python None is NoneVal, a present value v is Some(v) *)

NoneVal == <<>>
Some(v) == <<v>>

(* Paths, as sequences of characters *)
P_csv == <<"d", ".", "c", "s", "v">>
P_xlsx == <<"d", ".", "x", "l", "s", "x">>
P_json == <<"d", ".", "j", "s", "o", "n">>
P_xls == <<"d", ".", "x", "l", "s">>
P_CSV == <<"d", ".", "C", "S", "V">>
P_noext == <<"d">>
P_dotfile == <<".", "c", "s", "v">>
P_dirdot == <<"a", ".", "c", "s", "v", "/", "d">>
P_double == <<"d", ".", "j", "s", "o", "n", ".", "c", "s", "v">>

Paths == {P_csv, P_xlsx, P_json, P_xls, P_CSV, P_noext, P_dotfile, P_dirdot, P_double}

EXT_XLSX == <<".", "x", "l", "s", "x">>
EXT_CSV == <<".", "c", "s", "v">>
EXT_JSON == <<".", "j", "s", "o", "n">>

SheetNames == {NoneVal} \cup {Some(i) : i \in 1..MaxSheets}
ArtifactNames == 1..MaxNames
ArtifactTypes == {NoneVal, Some("raw_data")}
ArtifactDescriptions == {NoneVal, Some("description")}

Contents == {"ok", "empty", "malformed", "unreadable"}

NoExc == [kind |-> "None", site |-> "None"]
Exc(kind, site) == [kind |-> kind, site |-> site]

LogRec(level, msg) == [level |-> level, msg |-> msg]

(* helpers on sequences *)
Count(seq, x) == Cardinality({i \in DOMAIN seq : seq[i] = x})
IsPrefix(s, t) == Len(s) <= Len(t) /\ SubSeq(t, 1, Len(s)) = s
ErrorCount == Cardinality({i \in DOMAIN log : log[i].level = "ERROR"})
Logged(msg) == \E i \in DOMAIN log : log[i].msg = msg

---------------------------------------------------------------------------
(* os.path.splitext, as called at line 35 *)

RFind(p, c) ==
    LET hits == {i \in 1..Len(p) : p[i] = c}
    IN  IF hits = {} THEN 0 ELSE CHOOSE i \in hits : \A j \in hits : j <= i

SplitExt(p) ==
    LET sepIndex == RFind(p, "/")
        dotIndex == RFind(p, ".")
    IN  IF /\ dotIndex > sepIndex
           /\ \E k \in (sepIndex + 1)..(dotIndex - 1) : p[k] # "."
        THEN <<SubSeq(p, 1, dotIndex - 1), SubSeq(p, dotIndex, Len(p))>>
        ELSE <<p, <<>>>>

(* mutant: the extension is compared without regard to letter case *)
Lower(c) ==
    IF c = "C" THEN "c" ELSE IF c = "S" THEN "s" ELSE IF c = "V" THEN "v" ELSE c

ReaderCaseFold(ext) ==
    LET e == [i \in DOMAIN ext |-> Lower(ext[i])]
    IN  IF e = EXT_XLSX THEN "read_excel"
        ELSE IF e = EXT_CSV THEN "read_csv"
        ELSE IF e = EXT_JSON THEN "read_json"
        ELSE "none"

(* the if/elif chain of lines 38-47: which reader an extension selects *)
Reader(ext) ==
    IF ext = EXT_XLSX THEN "read_excel"
    ELSE IF ext = EXT_CSV THEN "read_csv"
    ELSE IF ext = EXT_JSON THEN "read_json"
    ELSE "none"

(* mutant: the CSV branch hands sheet_name to its reader too *)
ReaderCallSheetToCsv(ext, file_path, sheet_name) ==
    IF Reader(ext) = "read_excel"
    THEN [reader |-> "read_excel", path |-> file_path,
          sheet_name |-> Some(sheet_name), orient |-> NoneVal]
    ELSE IF Reader(ext) = "read_csv"
    THEN [reader |-> "read_csv", path |-> file_path,
          sheet_name |-> Some(sheet_name), orient |-> NoneVal]
    ELSE [reader |-> "read_json", path |-> file_path,
          sheet_name |-> NoneVal, orient |-> Some("split")]

(* the reader calls of lines 40, 43, 46: reader, positional path, keywords. *)
(* A keyword that is not passed is NoneVal, one that is passed is Some(v).  *)
ReaderCall(ext, file_path, sheet_name) ==
    IF Reader(ext) = "read_excel"
    THEN [reader |-> "read_excel", path |-> file_path,
          sheet_name |-> Some(sheet_name), orient |-> NoneVal]
    ELSE IF Reader(ext) = "read_csv"
    THEN [reader |-> "read_csv", path |-> file_path,
          sheet_name |-> NoneVal, orient |-> NoneVal]
    ELSE [reader |-> "read_json", path |-> file_path,
          sheet_name |-> NoneVal, orient |-> Some("split")]

(* pandas: what a reader call yields on a file.  read_excel with           *)
(* sheet_name=None loads all sheets and yields a dict of DataFrames; with  *)
(* a sheet name it yields one DataFrame, or ValueError if there is no such *)
(* worksheet.                                                              *)
ReaderOutcome(call, f) ==
    IF f.content = "empty" THEN [raised |-> TRUE, kind |-> "EmptyDataError", value |-> "unset"]
    ELSE IF f.content = "malformed" THEN [raised |-> TRUE, kind |-> "ParserError", value |-> "unset"]
    ELSE IF f.content = "unreadable" THEN [raised |-> TRUE, kind |-> "PermissionError", value |-> "unset"]
    ELSE IF call.reader = "read_excel" /\ call.sheet_name = Some(NoneVal)
    THEN [raised |-> FALSE, kind |-> "None", value |-> "DictOfDataFrames"]
    ELSE IF call.reader = "read_excel" /\ call.sheet_name \notin {Some(Some(i)) : i \in f.sheets}
    THEN [raised |-> TRUE, kind |-> "ValueError", value |-> "unset"]
    ELSE [raised |-> FALSE, kind |-> "None", value |-> "DataFrame"]

(* the except clauses of lines 54-61: the message logged for an exception *)
HandlerMsg(kind) ==
    IF kind = "EmptyDataError" THEN "No data"
    ELSE IF kind = "ParserError" THEN "Parse error"
    ELSE "An error occurred"

(* the bare raise of lines 56, 59, 62 *)
Reraise(e) == e

---------------------------------------------------------------------------
Init ==
    /\ pc = "m_init"
    /\ args \in [file_path : Paths, sheet_name : SheetNames,
                 artifact_name : ArtifactNames, artifact_type : ArtifactTypes,
                 artifact_description : ArtifactDescriptions]
    /\ file \in [exists : BOOLEAN, content : Contents,
                 sheets : SUBSET (1..MaxSheets) \ {{}}]
    /\ file_extension = NoneVal
    /\ pending = NoExc
    /\ ret = "unset"
    /\ ldResult = "none"
    /\ df = "unset"
    /\ exc = NoExc
    /\ log = <<>>
    /\ trace = <<>>
    /\ readerCalls = <<>>
    /\ artifact = NoneVal
    /\ openFile = NoneVal
    /\ logged = <<>>

(* an exception leaves main: nothing in main catches it *)
Raise(e) ==
    /\ pc' = "raised"
    /\ exc' = e

(* ---------------------------- load_data ------------------------------- *)

(* mutant: the existence check is missing, a missing file reaches the dispatch *)
LoadCheckExistsSkipped ==
    /\ pc = "m_load"
    /\ trace' = Append(trace, "load_data")
    /\ pc' = "l_splitext"
    /\ UNCHANGED <<args, file, file_extension, pending, ret, ldResult, df, exc,
                   log, readerCalls, artifact, openFile, logged>>

(* line 74 enters load_data; lines 31-33 *)
LoadCheckExists ==
    /\ pc = "m_load"
    /\ trace' = Append(trace, "load_data")
    /\ IF ~file.exists
       THEN /\ log' = Append(log, LogRec("ERROR", "File not found"))
            /\ exc' = Exc("FileNotFoundError", "line33")
            /\ ldResult' = "raised"
            /\ pc' = "l_raised"
       ELSE /\ pc' = "l_splitext"
            /\ UNCHANGED <<log, exc, ldResult>>
    /\ UNCHANGED <<args, file, file_extension, pending, ret, df, readerCalls,
                   artifact, openFile, logged>>

(* line 35 *)
LoadSplitExt ==
    /\ pc = "l_splitext"
    /\ file_extension' = Some(SplitExt(args.file_path)[2])
    /\ pc' = "l_dispatch"
    /\ UNCHANGED <<args, file, pending, ret, ldResult, df, exc, log, trace,
                   readerCalls, artifact, openFile, logged>>

(* the body of a branch of lines 38-46: info record, then the reader call *)
InvokeReader(msg) ==
    /\ log' = Append(log, LogRec("INFO", msg))
    /\ LET call == ReaderCall(file_extension[1], args.file_path, args.sheet_name)
           out == ReaderOutcome(call, file)
       IN  /\ readerCalls' = Append(readerCalls, call)
           /\ IF out.raised
              THEN /\ pending' = Exc(out.kind, "reader")
                   /\ pc' = "l_except"
                   /\ ret' = ret
              ELSE /\ ret' = out.value
                   /\ pc' = "l_success"
                   /\ pending' = pending
    /\ UNCHANGED <<args, file, file_extension, ldResult, df, exc, trace,
                   artifact, openFile, logged>>

(* lines 38-40 *)
LoadExcel ==
    /\ pc = "l_dispatch"
    /\ Reader(file_extension[1]) = "read_excel"
    /\ InvokeReader("Loading Excel file")

(* lines 41-43 *)
LoadCsv ==
    /\ pc = "l_dispatch"
    /\ Reader(file_extension[1]) = "read_csv"
    /\ InvokeReader("Loading CSV file")

(* lines 44-46 *)
LoadJson ==
    /\ pc = "l_dispatch"
    /\ Reader(file_extension[1]) = "read_json"
    /\ InvokeReader("Loading JSON file")

(* lines 47-49 *)
LoadUnsupported ==
    /\ pc = "l_dispatch"
    /\ Reader(file_extension[1]) = "none"
    /\ log' = Append(log, LogRec("ERROR", "Unsupported file format"))
    /\ pending' = Exc("ValueError", "line49")
    /\ pc' = "l_except"
    /\ UNCHANGED <<args, file, file_extension, ret, ldResult, df, exc, trace,
                   readerCalls, artifact, openFile, logged>>

(* lines 51-52 *)
LoadSuccess ==
    /\ pc = "l_success"
    /\ log' = Append(log, LogRec("INFO", "Successfully loaded data"))
    /\ ldResult' = "returned"
    /\ pc' = "l_returned"
    /\ UNCHANGED <<args, file, file_extension, pending, ret, df, exc, trace,
                   readerCalls, artifact, openFile, logged>>

(* lines 54-62: the matching except clause logs and re-raises *)
LoadExcept ==
    /\ pc = "l_except"
    /\ log' = Append(log, LogRec("ERROR", HandlerMsg(pending.kind)))
    /\ exc' = Reraise(pending)
    /\ ldResult' = "raised"
    /\ pc' = "l_raised"
    /\ UNCHANGED <<args, file, file_extension, pending, ret, df, trace,
                   readerCalls, artifact, openFile, logged>>

(* ------------------------------- main --------------------------------- *)

(* line 72 *)
WandbInit ==
    /\ pc = "m_init"
    /\ trace' = Append(trace, "wandb.init")
    /\ \E ok \in BOOLEAN :
          IF ok THEN pc' = "m_load" /\ exc' = exc
          ELSE Raise(Exc("CommError", "wandb.init"))
    /\ UNCHANGED <<args, file, file_extension, pending, ret, ldResult, df, log,
                   readerCalls, artifact, openFile, logged>>

(* mutant: main catches the exception of load_data and carries on *)
MainAfterLoadSwallow ==
    /\ pc \in {"l_returned", "l_raised"}
    /\ pc' = "m_artifact"
    /\ df' = ret
    /\ UNCHANGED <<args, file, file_extension, pending, ret, ldResult, exc, log,
                   trace, readerCalls, artifact, openFile, logged>>

(* line 74: load_data has ended; its value is bound to df, or its *)
(* exception leaves main                                          *)
MainAfterLoad ==
    /\ pc \in {"l_returned", "l_raised"}
    /\ IF pc = "l_raised"
       THEN Raise(exc) /\ df' = df
       ELSE pc' = "m_artifact" /\ df' = ret /\ exc' = exc
    /\ UNCHANGED <<args, file, file_extension, pending, ret, ldResult, log,
                   trace, readerCalls, artifact, openFile, logged>>

(* mutant: type and description are handed over in each other's place *)
NewArtifactSwapped(a) ==
    [name |-> a.artifact_name, type |-> a.artifact_description,
     description |-> a.artifact_type, files |-> <<>>]

(* the constructor call of lines 76-80 *)
NewArtifact(a) ==
    [name |-> a.artifact_name, type |-> a.artifact_type,
     description |-> a.artifact_description, files |-> <<>>]

(* lines 76-80 *)
CreateArtifact ==
    /\ pc = "m_artifact"
    /\ trace' = Append(trace, "Artifact")
    /\ \E ok \in BOOLEAN :
          IF ok THEN /\ artifact' = Some(NewArtifact(args))
                     /\ pc' = "m_new_file"
                     /\ exc' = exc
          ELSE Raise(Exc("ValueError", "Artifact")) /\ artifact' = artifact
    /\ UNCHANGED <<args, file, file_extension, pending, ret, ldResult, df, log,
                   readerCalls, openFile, logged>>

(* line 81 *)
NewFile ==
    /\ pc = "m_new_file"
    /\ trace' = Append(trace, "new_file")
    /\ \E ok \in BOOLEAN :
          IF ok THEN /\ openFile' = Some("raw_data.csv")
                     /\ pc' = "m_to_csv"
                     /\ exc' = exc
          ELSE Raise(Exc("OSError", "new_file")) /\ openFile' = openFile
    /\ UNCHANGED <<args, file, file_extension, pending, ret, ldResult, df, log,
                   readerCalls, artifact, logged>>

(* mutant: a failed write is swallowed and main goes on to log the artifact *)
ToCsvSwallow ==
    /\ pc = "m_to_csv"
    /\ trace' = Append(trace, "to_csv")
    /\ \E ok \in BOOLEAN :
          IF ok /\ df = "DataFrame"
          THEN artifact' = Some([artifact[1] EXCEPT !.files = Append(@, openFile[1])])
          ELSE artifact' = artifact
    /\ pc' = "m_log_artifact"
    /\ openFile' = NoneVal
    /\ UNCHANGED <<args, file, file_extension, pending, ret, ldResult, df, exc,
                   log, readerCalls, logged>>

(* line 82 and the exit of the with-block: df.to_csv writes the table and  *)
(* the closed file joins the artifact.  A dict has no to_csv.              *)
ToCsv ==
    /\ pc = "m_to_csv"
    /\ trace' = Append(trace, "to_csv")
    /\ IF df # "DataFrame"
       THEN Raise(Exc("AttributeError", "to_csv")) /\ artifact' = artifact
       ELSE \E ok \in BOOLEAN :
              IF ok THEN /\ artifact' = Some([artifact[1] EXCEPT
                                               !.files = Append(@, openFile[1])])
                         /\ pc' = "m_log_artifact"
                         /\ exc' = exc
              ELSE Raise(Exc("OSError", "to_csv")) /\ artifact' = artifact
    /\ openFile' = NoneVal
    /\ UNCHANGED <<args, file, file_extension, pending, ret, ldResult, df, log,
                   readerCalls, logged>>

(* mutant: a failed log_artifact is attempted once more *)
LogArtifactRetry ==
    /\ pc = "m_log_artifact"
    /\ trace' = Append(trace, "log_artifact")
    /\ \E ok \in BOOLEAN :
          IF ok THEN /\ logged' = Append(logged, artifact[1])
                     /\ pc' = "m_final"
                     /\ exc' = exc
          ELSE IF Count(trace, "log_artifact") = 0
          THEN pc' = pc /\ exc' = exc /\ logged' = logged
          ELSE Raise(Exc("CommError", "log_artifact")) /\ logged' = logged
    /\ UNCHANGED <<args, file, file_extension, pending, ret, ldResult, df, log,
                   readerCalls, artifact, openFile>>

(* line 84 *)
LogArtifact ==
    /\ pc = "m_log_artifact"
    /\ trace' = Append(trace, "log_artifact")
    /\ \E ok \in BOOLEAN :
          IF ok THEN /\ logged' = Append(logged, artifact[1])
                     /\ pc' = "m_final"
                     /\ exc' = exc
          ELSE Raise(Exc("CommError", "log_artifact")) /\ logged' = logged
    /\ UNCHANGED <<args, file, file_extension, pending, ret, ldResult, df, log,
                   readerCalls, artifact, openFile>>

(* line 85 *)
FinalInfo ==
    /\ pc = "m_final"
    /\ log' = Append(log, LogRec("INFO", "Data loaded and artifact logged"))
    /\ pc' = "done"
    /\ UNCHANGED <<args, file, file_extension, pending, ret, ldResult, df, exc,
                   trace, readerCalls, artifact, openFile, logged>>

Next ==
    \/ WandbInit
    \/ LoadCheckExists
    \/ LoadSplitExt
    \/ LoadExcel
    \/ LoadCsv
    \/ LoadJson
    \/ LoadUnsupported
    \/ LoadSuccess
    \/ LoadExcept
    \/ MainAfterLoad
    \/ CreateArtifact
    \/ NewFile
    \/ ToCsv
    \/ LogArtifact
    \/ FinalInfo

Spec == Init /\ [][Next]_vars

---------------------------------------------------------------------------
(* Properties *)

Readers == [i \in DOMAIN readerCalls |-> readerCalls[i].reader]
LoadEnded == ldResult # "none"
MainOrder == <<"wandb.init", "load_data", "Artifact", "new_file", "to_csv", "log_artifact">>
MainSteps == {MainOrder[i] : i \in DOMAIN MainOrder}
ExpectedArtifact ==
    [name |-> args.artifact_name, type |-> args.artifact_type,
     description |-> args.artifact_description, files |-> <<"raw_data.csv">>]

(* C1: for a path that exists, a finished call of load_data has invoked   *)
(* exactly the reader its extension names ('.xlsx' Excel, '.csv' CSV,     *)
(* '.json' JSON); for every other extension (none, '.xls', '.CSV', ...)   *)
(* it has invoked no reader and raised ValueError.                        *)
C1_ReaderByExtension ==
    (file.exists /\ LoadEnded) =>
        LET ext == file_extension[1]
        IN  /\ ext = EXT_XLSX => Readers = <<"read_excel">>
            /\ ext = EXT_CSV => Readers = <<"read_csv">>
            /\ ext = EXT_JSON => Readers = <<"read_json">>
            /\ ext \notin {EXT_XLSX, EXT_CSV, EXT_JSON} =>
                  /\ readerCalls = <<>>
                  /\ ldResult = "raised"
                  /\ exc.kind = "ValueError"
            /\ args.file_path \in {P_xls, P_CSV, P_noext, P_dotfile, P_dirdot} =>
                  /\ readerCalls = <<>>
                  /\ ldResult = "raised"
                  /\ exc.kind = "ValueError"
            /\ args.file_path = P_double => Readers = <<"read_csv">>

C1_Witness ==
    /\ file.exists
    /\ args.file_path = P_CSV
    /\ ldResult = "raised"
    /\ exc.kind = "ValueError"
    /\ readerCalls = <<>>

(* C2: when the path does not exist, load_data raises FileNotFoundError   *)
(* whatever the extension, having logged the error, with no reader        *)
(* invoked and the extension not examined.                                *)
C2_MissingFile ==
    (~file.exists /\ LoadEnded) =>
        /\ ldResult = "raised"
        /\ exc = Exc("FileNotFoundError", "line33")
        /\ log = <<LogRec("ERROR", "File not found")>>
        /\ readerCalls = <<>>
        /\ file_extension = NoneVal

C2_Witness ==
    /\ ~file.exists
    /\ args.file_path = P_xls
    /\ pc = "raised"
    /\ exc.kind = "FileNotFoundError"

(* C3: every call of load_data that returns normally returns one table    *)
(* (a DataFrame), never a collection of per-sheet tables.                 *)
C3_SingleTable ==
    ldResult = "returned" => ret = "DataFrame"

(* C4: the calls of main occur in the fixed order init, load, artifact,   *)
(* write CSV, log artifact, final message; the artifact is logged only    *)
(* after the load succeeded and the CSV was written, and the final        *)
(* message is emitted only after the artifact was logged.                 *)
C4_FixedOrder ==
    /\ IsPrefix(trace, MainOrder)
    /\ Count(trace, "log_artifact") > 0 =>
          /\ ldResult = "returned"
          /\ artifact # NoneVal
          /\ artifact[1].files = <<"raw_data.csv">>
    /\ Logged("Data loaded and artifact logged") =>
          /\ trace = MainOrder
          /\ Len(logged) = 1
          /\ log[Len(log)].msg = "Data loaded and artifact logged"

C4_Witness ==
    /\ pc = "done"
    /\ trace = MainOrder
    /\ Logged("Data loaded and artifact logged")

(* C5: if load_data raises in main, its exception leaves main, no         *)
(* artifact is created, no file is written, log_artifact is not called    *)
(* and the final message is not emitted, though the run was started.      *)
C5_LoadFailure ==
    ldResult = "raised" =>
        /\ pc \in {"l_raised", "raised"}
        /\ exc.site \in {"line33", "line49", "reader"}
        /\ trace = <<"wandb.init", "load_data">>
        /\ artifact = NoneVal
        /\ openFile = NoneVal
        /\ logged = <<>>
        /\ ~Logged("Data loaded and artifact logged")

C5_Witness ==
    /\ pc = "raised"
    /\ ldResult = "raised"
    /\ exc = Exc("ParserError", "reader")
    /\ trace[1] = "wandb.init"

(* C6: nothing is retried: each call of main and the file reader are      *)
(* made at most once in a run, and once an exception has left main no     *)
(* further step is taken.                                                 *)
C6_NoRetry ==
    /\ [](/\ \A e \in MainSteps : Count(trace, e) <= 1
          /\ Len(readerCalls) <= 1)
    /\ [][pc # "raised"]_vars

C6_Witness ==
    /\ pc = "raised"
    /\ exc = Exc("CommError", "log_artifact")
    /\ Count(trace, "log_artifact") = 1
    /\ Len(readerCalls) = 1

(* C7: every call of load_data that fails has emitted exactly one         *)
(* error-level record, and every call that succeeds none.                 *)
C7_OneErrorRecord ==
    /\ ldResult = "raised" => ErrorCount = 1
    /\ ldResult = "returned" => ErrorCount = 0

(* C8: when a reader raises, the exception that leaves load_data is the   *)
(* reader's own and load_data returns no value; the 'Successfully loaded  *)
(* data' message is emitted if and only if load_data returns a table.     *)
C8_ErrorsPropagate ==
    /\ (LoadEnded /\ pending.site = "reader") =>
          /\ ldResult = "raised"
          /\ exc = pending
          /\ ret = "unset"
    /\ LoadEnded =>
          (Logged("Successfully loaded data") <=>
              (ldResult = "returned" /\ ret = "DataFrame"))

(* C9: sheet_name reaches only the Excel reader: for '.csv' and '.json'   *)
(* the reader call and the outcome of load_data are the same for every    *)
(* sheet_name; the '.xlsx' branch alone passes sheet_name.                *)
C9_SheetNameOnlyExcel ==
    readerCalls # <<>> =>
        LET ext == file_extension[1]
            call == readerCalls[1]
        IN  /\ call.reader = "read_excel" => call.sheet_name = Some(args.sheet_name)
            /\ call.reader \in {"read_csv", "read_json"} =>
                  /\ call.sheet_name = NoneVal
                  /\ \A s \in SheetNames :
                        LET c == ReaderCall(ext, args.file_path, s)
                            out == ReaderOutcome(c, file)
                        IN  /\ c = call
                            /\ LoadEnded =>
                                  /\ out.raised <=> ldResult = "raised"
                                  /\ out.raised => exc = Exc(out.kind, "reader")
                                  /\ ~out.raised => ret = out.value

C9_Witness ==
    /\ readerCalls # <<>>
    /\ readerCalls[1].reader = "read_csv"
    /\ args.sheet_name = Some(2)
    /\ ldResult = "returned"

(* C10: a run that reaches log_artifact hands it one artifact holding     *)
(* the single file 'raw_data.csv', with name, type and description as     *)
(* given on the command line; no second file or artifact is produced.     *)
C10_OneArtifactOneFile ==
    /\ Len(logged) <= 1
    /\ Count(trace, "Artifact") <= 1
    /\ Count(trace, "new_file") <= 1
    /\ artifact # NoneVal => Len(artifact[1].files) <= 1
    /\ Count(trace, "log_artifact") > 0 => artifact = Some(ExpectedArtifact)
    /\ logged # <<>> => logged = <<ExpectedArtifact>>

C10_Witness ==
    /\ pc = "done"
    /\ args.file_path = P_json
    /\ args.artifact_type = NoneVal
    /\ args.artifact_description # NoneVal
    /\ logged = <<ExpectedArtifact>>

=============================================================================
